---- MODULE Spec2Model ----
(***************************************************************************)
(* Model of the Pkartor converter (src/app.py): the MainWindow supervisor, *)
(* one ConverterThread per submitted file, the child process each thread   *)
(* spawns with its two bounded pipes, and the Qt event queue that carries  *)
(* the threads' signals to the window's slots.                             *)
(*                                                                         *)
(* Times are Python floats in the source.  They are modelled as IEEE-754   *)
(* binary64 values with round-to-nearest-even arithmetic: a positive value *)
(* is [e, m] with m = <<a, b, c>> the 53-bit significand                   *)
(* a*2^36 + b*2^18 + c (2^52 <= m < 2^53) and value m * 2^(e-52).          *)
(***************************************************************************)
EXTENDS Integers, Sequences, FiniteSets, TLC

None == "None"

(***************************************************************************)
(* binary64 arithmetic                                                     *)
(***************************************************************************)
Base == 262144
HalfBase == 131072
TopOne == 65536

FZero == [e |-> 0, m |-> <<0, 0, 0>>]

IsZero(x) == x.m = <<0, 0, 0>>

\* limbs b, c brought back below Base, the carries moved up
Carry(a, b, c) ==
    LET b1 == b + (c \div Base)
    IN  <<a + (b1 \div Base), b1 % Base, c % Base>>

Dbl(m) == Carry(2 * m[1], 2 * m[2], 2 * m[3])

Halve(m) ==
    << m[1] \div 2,
       (m[2] \div 2) + (m[1] % 2) * HalfBase,
       (m[3] \div 2) + (m[2] % 2) * HalfBase >>

Geq(x, y) ==
    \/ x[1] > y[1]
    \/ x[1] = y[1] /\ x[2] > y[2]
    \/ x[1] = y[1] /\ x[2] = y[2] /\ x[3] >= y[3]

\* x - y for x >= y
Sub(x, y) ==
    LET bc == IF x[3] < y[3] THEN 1 ELSE 0
        c  == x[3] - y[3] + bc * Base
        bb == IF x[2] - bc < y[2] THEN 1 ELSE 0
        b  == x[2] - bc - y[2] + bb * Base
    IN  <<x[1] - bb - y[1], b, c>>

Add(x, y) == Carry(x[1] + y[1], x[2] + y[2], x[3] + y[3])

\* m shifted right by s bits; st collects whether a 1 was shifted out
RECURSIVE Shr(_, _, _)
Shr(m, s, st) ==
    IF s <= 0 \/ (m = <<0, 0, 0>>) THEN [m |-> m, st |-> st]
    ELSE IF st \/ (m[3] % 2 = 1)
    THEN Shr(Halve(m), s - 1, TRUE)
    ELSE Shr(Halve(m), s - 1, FALSE)

\* the value m * 2^(e-52) (plus a nonzero tail below m when st) rounded to
\* nearest, ties to even; m has at least 55 bits whenever st or an odd tail
RECURSIVE Round(_, _, _)
Round(m, e, st) ==
    IF m[1] >= 2 * HalfBase
    THEN IF st \/ (m[3] % 2 = 1)
         THEN Round(Halve(m), e + 1, TRUE)
         ELSE Round(Halve(m), e + 1, FALSE)
    ELSE IF m[1] >= HalfBase
    THEN LET h  == Halve(m)
             up == (m[3] % 2 = 1) /\ (st \/ (h[3] % 2 = 1))
             r  == IF up THEN Carry(h[1], h[2], h[3] + 1) ELSE h
         IN  IF r[1] >= HalfBase
             THEN [e |-> e + 2, m |-> Halve(r)]
             ELSE [e |-> e + 1, m |-> r]
    ELSE [e |-> e, m |-> m]

\* a nonzero significand below 2^53 shifted left until its top bit is bit 52
RECURSIVE NormLeft(_, _)
NormLeft(m, e) ==
    IF m[1] >= TopOne THEN [e |-> e, m |-> m]
    ELSE NormLeft(Dbl(m), e - 1)

\* float(k) for an integer 0 <= k < 2^30: exact
IntToFloat(k) ==
    IF k = 0 THEN FZero ELSE NormLeft(Carry(0, 0, k), 52)

\* n more quotient bits by long division; s = [q, r] the quotient so far and
\* the remainder, d the divisor
RECURSIVE DivBits(_, _, _)
DivBits(s, d, n) ==
    IF n = 0 THEN s
    ELSE LET r2 == Dbl(s.r)
             q2 == Dbl(s.q)
         IN  IF Geq(r2, d)
             THEN DivBits([q |-> <<q2[1], q2[2], q2[3] + 1>>, r |-> Sub(r2, d)], d, n - 1)
             ELSE DivBits([q |-> q2, r |-> r2], d, n - 1)

\* x / y, y nonzero (Python raises ZeroDivisionError for y = 0.0; the run
\* loop never divides by a zero duration, see DurationKnown)
FDiv(x, y) ==
    IF IsZero(x) \/ IsZero(y) THEN FZero
    ELSE LET first == Geq(x.m, y.m)
             s0    == [q |-> <<0, 0, IF first THEN 1 ELSE 0>>,
                       r |-> IF first THEN Sub(x.m, y.m) ELSE x.m]
             s     == DivBits(s0, y.m, 55)
         IN  Round(s.q, x.e - y.e - 3, s.r # <<0, 0, 0>>)

\* x * k for a small positive integer k (k < 2^12)
FMulInt(x, k) ==
    IF IsZero(x) THEN FZero
    ELSE Round(Carry(k * x.m[1], k * x.m[2], k * x.m[3]), x.e, FALSE)

\* x + y, both >= 0
FAdd(x, y) ==
    IF IsZero(x) THEN y
    ELSE IF IsZero(y) THEN x
    ELSE LET big   == IF x.e >= y.e THEN x ELSE y
             small == IF x.e >= y.e THEN y ELSE x
             s     == Shr(Dbl(Dbl(small.m)), big.e - small.e, FALSE)
         IN  Round(Add(Dbl(Dbl(big.m)), s.m), big.e - 2, s.st)

\* x <= y, both >= 0
FLeq(x, y) ==
    \/ IsZero(x)
    \/ ~IsZero(y) /\ (x.e < y.e \/ (x.e = y.e /\ Geq(y.m, x.m)))

\* min(cap, int(x)) for x >= 0 and cap < 128
MinIntOf(cap, x) ==
    IF IsZero(x) \/ x.e < 0 THEN 0
    ELSE IF x.e >= 7 THEN cap
    ELSE LET t == Shr(x.m, 52 - x.e, FALSE).m[3]
         IN  IF t < cap THEN t ELSE cap

(***************************************************************************)
(* Lines of the child's two streams.  A line is NoMatch (the regular       *)
(* expression does not match it) or the matched fields <<HH, MM, SSff>>,   *)
(* SSff the four digits of "SS.ff".                                        *)
(***************************************************************************)
NoMatch == <<>>

\* float("SS.ff"): the decimal string correctly rounded
FloatOfSeconds(ssff) == FDiv(IntToFloat(ssff), IntToFloat(100))

\* (hours * 3600) + (minutes * 60) + seconds
ToSeconds(f) == FAdd(IntToFloat(f[1] * 3600 + f[2] * 60), FloatOfSeconds(f[3]))

\* duration = None
DurationNone == [e |-> 0, m |-> <<>>]

DurationKnownIfNotNone(duration) == duration # DurationNone

\* "if duration:" is false for None and for 0.0
DurationKnown(duration) == duration # DurationNone /\ ~IsZero(duration)

ProgressPercentUnclamped(current_time, duration) ==
    MinIntOf(120, FMulInt(FDiv(current_time, duration), 100))

\* progress = min(99, int((current_time / duration) * 100))
ProgressPercent(current_time, duration) ==
    MinIntOf(99, FMulInt(FDiv(current_time, duration), 100))

(***************************************************************************)
(* Bounds of the model                                                     *)
(***************************************************************************)
MaxFiles == 2
RunnerFiles == 1
RunnerWrites == 3
PipeCap == 1
MaxMinutes == 2
MaxCents == 40

(***************************************************************************)
(* The environment: files the user can add, the formats of settings.json,  *)
(* the lines the child process can write.  A path is <<stem, n, ext>>,     *)
(* the string stem + ext when n = 0 and stem + "_" + n + ext otherwise.    *)
(***************************************************************************)
Sources == { <<"foo", 0, ".mp4">>, <<"bar", 0, ".mp4">> }
Unsupported == { <<"notes", 0, ".txt">> }

MediaFormats ==
    << [extensions |-> {".mp4", ".avi"}, convertible_to |-> <<".mkv">>] >>

ErrLines == { NoMatch, <<0, 0, 0>>, <<0, 0, 100>> }
OutLines == { NoMatch, <<0, 0, 29>>, <<0, 2, 0>> }

\* the parsed values and the percentages of the lines above, computed once
Seconds == [f \in (ErrLines \cup OutLines) \ {NoMatch} |-> ToSeconds(f)] @@ <<>>

PercentOf ==
    [t \in { Seconds[f] : f \in OutLines \ {NoMatch} },
     d \in { Seconds[f] : f \in ErrLines \ {NoMatch} } |-> ProgressPercent(t, d)] @@ <<>>

VARIABLES
    ffmpeg_path,        \* MainWindow.ffmpeg_path
    list_widget,        \* the items of the queue list, in order
    input_combo_box,    \* the items of the input extension combo box
    output_combo_box,   \* the items of the output extension combo box
    progress_frames,    \* dict: input file -> frame
    progress_layout,    \* the frames in the progress layout
    frames,             \* every ConversionProgress created, by creation order
    converter_threads,  \* dict: input file -> thread
    threads,            \* every ConverterThread created, by creation order
    procs,              \* the child process of each thread
    fs,                 \* the paths that exist on disk
    log,                \* the lines of the log file
    dialog,             \* the message box shown last
    events,             \* the window's queue of signals from the threads
    hc,                 \* handle_convert's loop over items_to_remove
    aborted,            \* the application was ended by a fatal error
    calc                \* inputs and result of one progress computation

vars == << ffmpeg_path, list_widget, input_combo_box, output_combo_box,
           progress_frames, progress_layout, frames, converter_threads,
           threads, procs, fs, log, dialog, events, hc, aborted, calc >>

gui == << list_widget, input_combo_box, output_combo_box, dialog, hc >>
jobs == << progress_frames, progress_layout, frames, converter_threads, threads >>

(***************************************************************************)
(* Helpers                                                                 *)
(***************************************************************************)
EmptyDict == <<>>

Del(d, k) == [x \in (DOMAIN d) \ {k} |-> d[x]]

Put(d, k, v) == (k :> v) @@ d

Reverse(s) == [i \in 1..Len(s) |-> s[Len(s) + 1 - i]]

RemoveAt(s, i) == [k \in 1..(Len(s) - 1) |-> IF k < i THEN s[k] ELSE s[k + 1]]

Contains(s, x) == \E i \in 1..Len(s) : s[i] = x

\* f".{file.split('.')[-1].lower()}"
ExtOf(file) == file[3]

RECURSIVE ConcatAll(_)
ConcatAll(ss) == IF ss = <<>> THEN <<>> ELSE Head(ss) \o ConcatAll(Tail(ss))

SupportedExtensions == UNION { MediaFormats[i].extensions : i \in 1..Len(MediaFormats) }

ProgressEv(f, p) ==
    [sig |-> "progress_updated", file |-> f, progress |-> p, status |-> "", out |-> <<>>]
StatusEv(f, st) ==
    [sig |-> "status_updated", file |-> f, progress |-> -1, status |-> st, out |-> <<>>]
ConversionFinishedEv(f, o) ==
    [sig |-> "conversion_finished", file |-> f, progress |-> -1, status |-> "", out |-> o]
ThreadFinishedEv(f) ==
    [sig |-> "finished", file |-> f, progress |-> -1, status |-> "", out |-> <<>>]

\* the queue entries a thread's emissions become, in order
Queued(j, evs) == [i \in 1..Len(evs) |-> [job |-> j, ev |-> evs[i]]]

(***************************************************************************)
(* MainWindow                                                              *)
(***************************************************************************)
GetFfmpegPath(current_os, exists) ==
    IF current_os = "Windows" /\ ~exists THEN None
    ELSE IF current_os = "Windows" THEN "ffmpeg"
    ELSE "ffmpeg"

HcIdle == [active |-> FALSE, items |-> <<>>, out |-> ""]

CalcIdle == [duration |-> NoMatch, time |-> NoMatch, progress |-> -1]

InitApp ==
    /\ ffmpeg_path \in { GetFfmpegPath(os, ex) :
                            os \in {"Windows", "Linux", "Darwin"}, ex \in BOOLEAN }
    /\ list_widget = <<>>
    /\ input_combo_box = <<>>
    /\ output_combo_box = <<>>
    /\ progress_frames = EmptyDict
    /\ progress_layout = {}
    /\ frames = <<>>
    /\ converter_threads = EmptyDict
    /\ threads = <<>>
    /\ procs = <<>>
    /\ fs \in { Sources \cup x : x \in SUBSET { <<"foo", 0, ".mkv">> } }
    /\ log = <<>>
    /\ dialog = "none"
    /\ events = <<>>
    /\ hc = HcIdle
    /\ aborted = FALSE

Init == InitApp /\ calc = CalcIdle

MainIdle == ~aborted /\ ~hc.active

UpdateInputComboBox(items, input_file) ==
    IF Contains(items, ExtOf(input_file)) THEN items
    ELSE Append(items, ExtOf(input_file))

UpdateOutputComboBox(input_file) ==
    LET found == ConcatAll([i \in 1..Len(MediaFormats) |->
                    IF ExtOf(input_file) \in MediaFormats[i].extensions
                    THEN MediaFormats[i].convertible_to ELSE <<>>])
    IN  IF found = <<>> THEN <<"No available formats">> ELSE found

\* the loop body of add_files and of dropEvent for one file
AddFile(file, warn) ==
    IF ExtOf(file) \in SupportedExtensions
    THEN /\ list_widget' = Append(list_widget, file)
         /\ input_combo_box' = UpdateInputComboBox(input_combo_box, file)
         /\ output_combo_box' = UpdateOutputComboBox(file)
         /\ UNCHANGED dialog
    ELSE /\ dialog' = IF warn THEN "Unsupported Format" ELSE dialog
         /\ UNCHANGED << list_widget, input_combo_box, output_combo_box >>

add_files(maxFiles) ==
    /\ MainIdle
    /\ Len(list_widget) + Len(threads) < maxFiles
    /\ \E file \in Sources \cup Unsupported : AddFile(file, TRUE)
    /\ UNCHANGED << ffmpeg_path, jobs, procs, fs, log, events, hc, aborted, calc >>

dropEvent(maxFiles) ==
    /\ MainIdle
    /\ Len(list_widget) + Len(threads) < maxFiles
    /\ \E file \in Sources \cup Unsupported : AddFile(file, FALSE)
    /\ UNCHANGED << ffmpeg_path, jobs, procs, fs, log, events, hc, aborted, calc >>

\* currentText() of a combo box: "" when it has no item, else the item the
\* user has selected
CurrentTexts(items) == IF items = <<>> THEN {""} ELSE { items[i] : i \in 1..Len(items) }

FfmpegNeverUnavailable(path) == FALSE

\* "if self.ffmpeg_path is None"
FfmpegUnavailable(path) == path = None

\* items_to_remove, reversed
ItemsToRemove(input_ext) ==
    LET idx == { i \in 1..Len(list_widget) : ExtOf(list_widget[i]) = input_ext }
        RECURSIVE down(_)
        down(i) == IF i = 0 THEN <<>>
                   ELSE IF i \in idx THEN << <<i, list_widget[i]>> >> \o down(i - 1)
                   ELSE down(i - 1)
    IN  down(Len(list_widget))

\* the while loop of convert_file from the given counter on
RECURSIVE FreeNameFrom(_, _, _, _)
FreeNameFrom(stem, ext, counter, disk) ==
    IF <<stem, counter, ext>> \in disk
    THEN FreeNameFrom(stem, ext, counter + 1, disk)
    ELSE <<stem, counter, ext>>

\* output_file of convert_file
OutputFile(input_file, output_ext, disk) ==
    IF <<input_file[1], 0, output_ext>> \in disk
    THEN FreeNameFrom(input_file[1], output_ext, 1, disk)
    ELSE <<input_file[1], 0, output_ext>>

Running(j) == threads[j].pc \notin {"finished", "raised"}

\* whether rebinding or deleting converter_threads[file] drops the only
\* reference to a QThread that is still running (Qt ends the application
\* when such an object is destroyed)
DropsRunningThread(file) ==
    file \in DOMAIN converter_threads /\ Running(converter_threads[file])

\* the tail of handle_convert after its loop
AfterLoop(list) == IF list = <<>> THEN <<>> ELSE input_combo_box

handle_convert ==
    /\ MainIdle
    /\ \E output_ext \in CurrentTexts(output_combo_box),
          input_ext \in CurrentTexts(input_combo_box) :
        IF output_ext = ""
        THEN /\ dialog' = "Output Format"
             /\ UNCHANGED << list_widget, input_combo_box, hc >>
        ELSE IF input_ext = ""
        THEN /\ dialog' = "Input Format"
             /\ UNCHANGED << list_widget, input_combo_box, hc >>
        ELSE IF FfmpegUnavailable(ffmpeg_path)
        THEN /\ dialog' = "FFmpeg Error"
             /\ UNCHANGED << list_widget, input_combo_box, hc >>
        ELSE LET items == ItemsToRemove(input_ext)
             IN  /\ IF items = <<>>
                    THEN /\ input_combo_box' = AfterLoop(list_widget)
                         /\ UNCHANGED hc
                    ELSE /\ hc' = [active |-> TRUE, items |-> items, out |-> output_ext]
                         /\ UNCHANGED input_combo_box
                 /\ UNCHANGED << list_widget, dialog >>
    /\ UNCHANGED << ffmpeg_path, output_combo_box, jobs, procs, fs, log, events,
                    aborted, calc >>

NewThread(input_file, output_file) ==
    [ input_file  |-> input_file,
      output_file |-> output_file,
      ffmpeg_path |-> ffmpeg_path,
      pc          |-> "run",
      duration    |-> DurationNone,
      times       |-> <<>>,
      emitted     |-> <<>> ]

NewFrame(input_file) ==
    [ filename |-> input_file, value |-> 0, status |-> "Waiting..." ]

NoProc ==
    [ state |-> "none", returncode |-> -1, stderr |-> <<>>, stdout |-> <<>>,
      next |-> <<"none">>, writes |-> 0, created |-> FALSE ]

\* one iteration of handle_convert's loop: convert_file, then takeItem
convert_file ==
    /\ ~aborted
    /\ hc.active
    /\ LET index       == Head(hc.items)[1]
           input_file  == Head(hc.items)[2]
           output_file == OutputFile(input_file, hc.out, fs)
           id          == Len(threads) + 1
           rest        == Tail(hc.items)
           list        == RemoveAt(list_widget, index)
       IN  /\ frames' = Append(frames, NewFrame(input_file))
           /\ progress_layout' = progress_layout \cup {id}
           /\ progress_frames' = Put(progress_frames, input_file, id)
           /\ threads' = Append(threads, NewThread(input_file, output_file))
           /\ procs' = Append(procs, NoProc)
           /\ converter_threads' = Put(converter_threads, input_file, id)
           /\ aborted' \in IF DropsRunningThread(input_file) THEN BOOLEAN ELSE {FALSE}
           /\ list_widget' = list
           /\ hc' = IF rest = <<>> THEN HcIdle ELSE [hc EXCEPT !.items = rest]
           /\ input_combo_box' = IF rest = <<>> THEN AfterLoop(list) ELSE input_combo_box
    /\ UNCHANGED << ffmpeg_path, output_combo_box, fs, log, dialog, events, calc >>

(***************************************************************************)
(* The slots of MainWindow, run from the window's event queue              *)
(***************************************************************************)
Slot(sig) ==
    /\ MainIdle
    /\ events # <<>>
    /\ Head(events).ev.sig = sig
    /\ events' = Tail(events)

update_progress ==
    /\ Slot("progress_updated")
    /\ LET ev == Head(events).ev
       IN  frames' = IF ev.file \in DOMAIN progress_frames
                     THEN [frames EXCEPT ![progress_frames[ev.file]].value = ev.progress]
                     ELSE frames
    /\ UNCHANGED << ffmpeg_path, gui, progress_frames, progress_layout,
                    converter_threads, threads, procs, fs, log, aborted, calc >>

update_status ==
    /\ Slot("status_updated")
    /\ LET ev == Head(events).ev
       IN  frames' = IF ev.file \in DOMAIN progress_frames
                     THEN [frames EXCEPT ![progress_frames[ev.file]].status = ev.status]
                     ELSE frames
    /\ UNCHANGED << ffmpeg_path, gui, progress_frames, progress_layout,
                    converter_threads, threads, procs, fs, log, aborted, calc >>

\* the line written to the log file; "by" is the sending thread, kept only to
\* tell the lines of two jobs with equal paths apart
LogLine(by, input_file, output_file) ==
    [by |-> by, time |-> "now", input_file |-> input_file, output_file |-> output_file]

on_conversion_finished ==
    /\ Slot("conversion_finished")
    /\ LET e == Head(events)
       IN  log' = Append(log, LogLine(e.job, e.ev.file, e.ev.out))
    /\ UNCHANGED << ffmpeg_path, gui, jobs, procs, fs, aborted, calc >>

on_thread_finished ==
    /\ Slot("finished")
    /\ LET input_file == Head(events).ev.file
       IN  /\ converter_threads' = IF input_file \in DOMAIN converter_threads
                                   THEN Del(converter_threads, input_file)
                                   ELSE converter_threads
           /\ aborted' \in IF DropsRunningThread(input_file) THEN BOOLEAN ELSE {FALSE}
           /\ IF input_file \in DOMAIN progress_frames
              THEN /\ progress_layout' = progress_layout \ {progress_frames[input_file]}
                   /\ progress_frames' = Del(progress_frames, input_file)
              ELSE UNCHANGED << progress_layout, progress_frames >>
    /\ UNCHANGED << ffmpeg_path, gui, frames, threads, procs, fs, log, calc >>

(***************************************************************************)
(* The child process: it writes lines to its two pipes, each holding at    *)
(* most PipeCap unread lines, may create the output file, and exits.  It   *)
(* decides its next operation when the previous one is done and blocks in  *)
(* a write while the pipe is full.                                         *)
(***************************************************************************)
ChildOp(op, line, rc) == [op |-> op, line |-> line, rc |-> rc]

ChildOps(writes, maxWrites) ==
    { ChildOp("exit", NoMatch, rc) : rc \in {0, 1} }
    \cup (IF writes < maxWrites
          THEN { ChildOp("stderr", l, 0) : l \in ErrLines }
               \cup { ChildOp("stdout", l, 0) : l \in OutLines }
          ELSE {})

Jobs == 1..Len(threads)

child_write_stderr(j, maxWrites) ==
    /\ ~aborted
    /\ procs[j].state = "running"
    /\ procs[j].next.op = "stderr"
    /\ Len(procs[j].stderr) < PipeCap
    /\ \E nxt \in ChildOps(procs[j].writes + 1, maxWrites) :
         procs' = [procs EXCEPT ![j].stderr = Append(@, procs[j].next.line),
                                ![j].writes = @ + 1,
                                ![j].next = nxt]
    /\ UNCHANGED << ffmpeg_path, gui, jobs, fs, log, events, aborted, calc >>

child_write_stdout(j, maxWrites) ==
    /\ ~aborted
    /\ procs[j].state = "running"
    /\ procs[j].next.op = "stdout"
    /\ Len(procs[j].stdout) < PipeCap
    /\ \E nxt \in ChildOps(procs[j].writes + 1, maxWrites) :
         procs' = [procs EXCEPT ![j].stdout = Append(@, procs[j].next.line),
                                ![j].writes = @ + 1,
                                ![j].next = nxt]
    /\ UNCHANGED << ffmpeg_path, gui, jobs, fs, log, events, aborted, calc >>

child_create_output(j) ==
    /\ ~aborted
    /\ procs[j].state = "running"
    /\ ~procs[j].created
    /\ fs' = fs \cup {threads[j].output_file}
    /\ procs' = [procs EXCEPT ![j].created = TRUE]
    /\ UNCHANGED << ffmpeg_path, gui, jobs, log, events, aborted, calc >>

child_exit(j) ==
    /\ ~aborted
    /\ procs[j].state = "running"
    /\ procs[j].next.op = "exit"
    /\ procs' = [procs EXCEPT ![j].state = "exited",
                              ![j].returncode = procs[j].next.rc]
    /\ UNCHANGED << ffmpeg_path, gui, jobs, fs, log, events, aborted, calc >>

(***************************************************************************)
(* ConverterThread.run                                                     *)
(***************************************************************************)
\* the start of run up to a Popen that returns
run_popen(j, maxWrites) ==
    /\ ~aborted
    /\ threads[j].pc = "run"
    /\ LET evs == << StatusEv(threads[j].input_file, "Starting conversion...") >>
       IN  /\ threads' = [threads EXCEPT ![j].emitted = @ \o evs, ![j].pc = "stderr"]
           /\ events' = events \o Queued(j, evs)
    /\ \E nxt \in ChildOps(0, maxWrites) :
         procs' = [procs EXCEPT ![j].state = "running", ![j].next = nxt]
    /\ UNCHANGED << ffmpeg_path, gui, progress_frames, progress_layout, frames,
                    converter_threads, fs, log, aborted, calc >>

\* the start of run up to a Popen that raises: nothing in run catches it.
\* The exception leaves run; either the thread just ends (QThread emits
\* finished) or the binding ends the application on the unhandled exception.
run_popen_raises(j) ==
    /\ ~aborted
    /\ threads[j].pc = "run"
    /\ LET evs == << StatusEv(threads[j].input_file, "Starting conversion...") >>
       IN  /\ threads' = [threads EXCEPT ![j].emitted = @ \o evs, ![j].pc = "raised"]
           /\ \E fatal \in BOOLEAN :
                /\ aborted' = fatal
                /\ events' = events \o Queued(j,
                     IF fatal THEN evs
                     ELSE evs \o << ThreadFinishedEv(threads[j].input_file) >>)
    /\ UNCHANGED << ffmpeg_path, gui, progress_frames, progress_layout, frames,
                    converter_threads, procs, fs, log, calc >>

\* one iteration of "for line in process.stderr", or its end at end of file,
\* followed by "if duration:"
read_stderr(j) ==
    /\ ~aborted
    /\ threads[j].pc = "stderr"
    /\ IF procs[j].stderr # <<>>
       THEN LET line == Head(procs[j].stderr)
                file == threads[j].input_file
            IN  /\ procs' = [procs EXCEPT ![j].stderr = Tail(@)]
                /\ IF line = NoMatch
                   THEN UNCHANGED << threads, events >>
                   ELSE IF DurationKnown(Seconds[line])
                   THEN /\ threads' = [threads EXCEPT
                              ![j].duration = Seconds[line],
                              ![j].pc = "stdout",
                              ![j].emitted = Append(@, StatusEv(file, "Converting..."))]
                        /\ events' = events \o Queued(j, << StatusEv(file, "Converting...") >>)
                   ELSE /\ threads' = [threads EXCEPT
                              ![j].duration = Seconds[line], ![j].pc = "wait"]
                        /\ UNCHANGED events
       ELSE /\ procs[j].state = "exited"
            /\ threads' = [threads EXCEPT ![j].pc = "wait"]
            /\ UNCHANGED << procs, events >>
    /\ UNCHANGED << ffmpeg_path, gui, progress_frames, progress_layout, frames,
                    converter_threads, fs, log, aborted, calc >>

\* one iteration of "for line in process.stdout", or its end at end of file
read_stdout(j) ==
    /\ ~aborted
    /\ threads[j].pc = "stdout"
    /\ IF procs[j].stdout # <<>>
       THEN LET line == Head(procs[j].stdout)
                file == threads[j].input_file
            IN  /\ procs' = [procs EXCEPT ![j].stdout = Tail(@)]
                /\ IF line = NoMatch
                   THEN UNCHANGED << threads, events >>
                   ELSE LET current_time == Seconds[line]
                            progress == PercentOf[current_time, threads[j].duration]
                        IN  /\ threads' = [threads EXCEPT
                                  ![j].times = Append(@, current_time),
                                  ![j].emitted = Append(@, ProgressEv(file, progress))]
                            /\ events' = events \o Queued(j, << ProgressEv(file, progress) >>)
       ELSE /\ procs[j].state = "exited"
            /\ threads' = [threads EXCEPT ![j].pc = "wait"]
            /\ UNCHANGED << procs, events >>
    /\ UNCHANGED << ffmpeg_path, gui, progress_frames, progress_layout, frames,
                    converter_threads, fs, log, aborted, calc >>

TerminalEventsNoCompletion(input_file, output_file, returncode) ==
    IF returncode = 0
    THEN << ProgressEv(input_file, 100), StatusEv(input_file, "Completed") >>
    ELSE << StatusEv(input_file, "Error") >>

TerminalEventsIgnoringCode(input_file, output_file, returncode) ==
    << ProgressEv(input_file, 100), StatusEv(input_file, "Completed"),
       ConversionFinishedEv(input_file, output_file) >>

\* what run emits after process.wait()
TerminalEvents(input_file, output_file, returncode) ==
    IF returncode = 0
    THEN << ProgressEv(input_file, 100), StatusEv(input_file, "Completed"),
            ConversionFinishedEv(input_file, output_file) >>
    ELSE << StatusEv(input_file, "Error") >>

\* process.wait() returning, the end of run, and QThread's finished signal
wait(j) ==
    /\ ~aborted
    /\ threads[j].pc = "wait"
    /\ procs[j].state = "exited"
    /\ LET t   == threads[j]
           evs == TerminalEvents(t.input_file, t.output_file, procs[j].returncode)
       IN  /\ threads' = [threads EXCEPT ![j].emitted = @ \o evs, ![j].pc = "finished"]
           /\ events' = events \o Queued(j, evs \o << ThreadFinishedEv(t.input_file) >>)
    /\ UNCHANGED << ffmpeg_path, gui, progress_frames, progress_layout, frames,
                    converter_threads, procs, fs, log, aborted, calc >>

Next(maxFiles, maxWrites) ==
    \/ add_files(maxFiles)
    \/ dropEvent(maxFiles)
    \/ handle_convert
    \/ convert_file
    \/ update_progress
    \/ update_status
    \/ on_conversion_finished
    \/ on_thread_finished
    \/ \E j \in Jobs : run_popen(j, maxWrites)
    \/ \E j \in Jobs : run_popen_raises(j)
    \/ \E j \in Jobs : read_stderr(j)
    \/ \E j \in Jobs : read_stdout(j)
    \/ \E j \in Jobs : wait(j)
    \/ \E j \in Jobs : child_write_stderr(j, maxWrites)
    \/ \E j \in Jobs : child_write_stdout(j, maxWrites)
    \/ \E j \in Jobs : child_create_output(j)
    \/ \E j \in Jobs : child_exit(j)

\* the same steps with children that write nothing to their pipes
NextSilent(maxFiles) ==
    \/ add_files(maxFiles)
    \/ dropEvent(maxFiles)
    \/ handle_convert
    \/ convert_file
    \/ update_progress
    \/ update_status
    \/ on_conversion_finished
    \/ on_thread_finished
    \/ \E j \in Jobs : run_popen(j, 0)
    \/ \E j \in Jobs : run_popen_raises(j)
    \/ \E j \in Jobs : read_stderr(j)
    \/ \E j \in Jobs : wait(j)
    \/ \E j \in Jobs : child_create_output(j)
    \/ \E j \in Jobs : child_exit(j)

\* the supervisor with several jobs, their children silent
Spec == Init /\ [][NextSilent(MaxFiles)]_vars

\* one job, its child writing up to RunnerWrites lines
SpecRunner == Init /\ [][Next(RunnerFiles, RunnerWrites)]_vars

(***************************************************************************)
(* The progress computation alone, on the fields of one Duration line and  *)
(* one out_time line                                                       *)
(***************************************************************************)
DurationInputs == { <<0, 0, 100>>, <<0, 2, 0>> }

TimeInputs ==
    { <<0, m, 100 * sec + c>> : m \in 0..MaxMinutes, sec \in {0, 59}, c \in 0..MaxCents }

InitProgress ==
    /\ InitApp
    /\ calc \in { [duration |-> d, time |-> t, progress |-> -1] :
                    d \in DurationInputs, t \in TimeInputs }

\* lines 73-76 and 84-88 of run on these fields
compute_progress ==
    /\ calc.duration # NoMatch
    /\ calc.progress = -1
    /\ LET duration     == ToSeconds(calc.duration)
           current_time == ToSeconds(calc.time)
       IN  calc' = [calc EXCEPT !.progress = ProgressPercent(current_time, duration)]
    /\ UNCHANGED << ffmpeg_path, gui, jobs, procs, fs, log, events, aborted >>

SpecProgress == InitProgress /\ [][compute_progress]_vars

(***************************************************************************)
(* Properties                                                              *)
(***************************************************************************)
IsProgress(e) == e.sig = "progress_updated"
IsStatus(e) == e.sig = "status_updated"
IsCompletion(e) == e.sig = "conversion_finished"

Count(seq, Test(_)) == Len(SelectSeq(seq, Test))

Last(seq) == seq[Len(seq)]

LogLinesBy(j) == SelectSeq(log, LAMBDA l : l.by = j)

PendingCompletions(j) ==
    SelectSeq(events, LAMBDA q : q.job = j /\ IsCompletion(q.ev))

ExitCode(j) == procs[j].returncode

Finished(j) == threads[j].pc = "finished"

\* C1: a job whose child exited with code 0 ends its emissions with progress
\* 100, status "Completed" and one completion event carrying (source,
\* destination), in this order; handling that event appends exactly one log
\* line for (source, destination); no job ever has more than one log line.
C1_ExitZeroCompletes ==
    \A j \in Jobs :
        LET t == threads[j]
            n == Len(t.emitted)
        IN  /\ Len(LogLinesBy(j)) <= 1
            /\ \A i \in 1..Len(LogLinesBy(j)) :
                   LogLinesBy(j)[i] = LogLine(j, t.input_file, t.output_file)
            /\ (Finished(j) /\ ExitCode(j) = 0) =>
                   /\ n >= 3
                   /\ SubSeq(t.emitted, n - 2, n) =
                        << ProgressEv(t.input_file, 100),
                           StatusEv(t.input_file, "Completed"),
                           ConversionFinishedEv(t.input_file, t.output_file) >>
                   /\ Count(t.emitted, IsCompletion) = 1
                   /\ Len(LogLinesBy(j)) + Len(PendingCompletions(j)) = 1

C1_Witness ==
    \E j \in Jobs :
        /\ Finished(j) /\ ExitCode(j) = 0
        /\ Len(threads[j].emitted) > 4
        /\ Len(LogLinesBy(j)) = 1
        /\ events = <<>>

\* C2: a job whose child exited with a non-zero code has "Error" as its last
\* status and last emission, emitted no progress 100 and no completion
\* event, and the log holds no line of that job.
C2_ExitNonZeroFails ==
    \A j \in Jobs :
        (Finished(j) /\ ExitCode(j) # 0) =>
            LET t == threads[j]
            IN  /\ Last(t.emitted) = StatusEv(t.input_file, "Error")
                /\ ProgressEv(t.input_file, 100) \notin { t.emitted[i] : i \in 1..Len(t.emitted) }
                /\ Count(t.emitted, IsCompletion) = 0
                /\ PendingCompletions(j) = <<>>
                /\ LogLinesBy(j) = <<>>

C2_Witness ==
    \E j \in Jobs :
        /\ Finished(j) /\ ExitCode(j) # 0
        /\ events = <<>>
        /\ \E k \in Jobs : Finished(k) /\ ExitCode(k) = 0 /\ Len(log) = 1

IsPrefixOf(a, b) == Len(a) <= Len(b) /\ SubSeq(b, 1, Len(a)) = a

\* C3: with ffmpeg_path None no step creates a thread, a progress frame or a
\* child process, the queue list loses no item, and a handle_convert on a
\* non-empty list shows the "FFmpeg Error" box.
C3_UnavailableChangesNothing ==
    [][ ffmpeg_path = None =>
          /\ threads' = <<>>
          /\ procs' = <<>>
          /\ frames' = <<>>
          /\ converter_threads' = EmptyDict
          /\ progress_frames' = EmptyDict
          /\ progress_layout' = {}
          /\ ~hc'.active
          /\ IsPrefixOf(list_widget, list_widget')
          /\ (handle_convert /\ list_widget # <<>>) => dialog' = "FFmpeg Error" ]_vars

C3_Witness ==
    /\ ffmpeg_path = None
    /\ Len(list_widget) = 2
    /\ dialog = "FFmpeg Error"

\* C4 as claimed: no two submitted jobs are given the same destination path.
C4_DistinctDestinations ==
    \A i, j \in Jobs : i # j => threads[i].output_file # threads[j].output_file

AllHandled ==
    /\ ~aborted
    /\ ~hc.active
    /\ events = <<>>
    /\ \A j \in Jobs : ~Running(j)

\* C5 as claimed: once every job has ended and its finish notification has
\* been handled, both mappings are empty and no frame is left in the layout;
\* and while a job's thread runs, both mappings keep that job's entries.
C5_CleanupAndOwnership ==
    /\ AllHandled =>
          /\ converter_threads = EmptyDict
          /\ progress_frames = EmptyDict
          /\ progress_layout = {}
    /\ \A j \in Jobs :
          Running(j) =>
              LET f == threads[j].input_file
              IN  /\ f \in DOMAIN converter_threads /\ converter_threads[f] = j
                  /\ f \in DOMAIN progress_frames /\ progress_frames[f] = j

\* the values of the progress events run emitted before process.wait()
RunningProgress(j) ==
    LET ps == SelectSeq(threads[j].emitted, IsProgress)
        n  == IF Finished(j) /\ ExitCode(j) = 0 THEN Len(ps) - 1 ELSE Len(ps)
    IN  [i \in 1..n |-> ps[i].progress]

\* 100 is emitted only as the first of the three terminal events
HundredOnlyAtEnd(j) ==
    \A i \in 1..Len(threads[j].emitted) :
        threads[j].emitted[i] = ProgressEv(threads[j].input_file, 100) =>
            /\ Finished(j) /\ ExitCode(j) = 0
            /\ i = Len(threads[j].emitted) - 2

\* C6 as claimed: for any sequence of out_time lines the progress values
\* emitted while running are non-decreasing and lie in 0..99.
C6_MonotoneForAnyLines ==
    \A j \in Jobs :
        LET ps == RunningProgress(j)
        IN  /\ \A i \in 1..Len(ps) : ps[i] \in 0..99
            /\ \A i, k \in 1..Len(ps) : i < k => ps[i] <= ps[k]
            /\ HundredOnlyAtEnd(j)

\* C6 amended: the values lie in 0..99, 100 is emitted only by the terminal
\* step, and they are non-decreasing wherever the parsed out_time values
\* are.
C6_MonotoneForMonotoneTimes ==
    \A j \in Jobs :
        LET ps == RunningProgress(j)
            ts == threads[j].times
        IN  /\ Len(ps) = Len(ts)
            /\ \A i \in 1..Len(ps) : ps[i] \in 0..99
            /\ \A i, k \in 1..Len(ps) : (i < k /\ FLeq(ts[i], ts[k])) => ps[i] <= ps[k]
            /\ HundredOnlyAtEnd(j)

C6_Witness ==
    \E j \in Jobs :
        LET ps == RunningProgress(j)
        IN  /\ Len(ps) = 2
            /\ ps[1] < ps[2]
            /\ ps[2] = 99
            /\ Finished(j) /\ ExitCode(j) = 0

\* the child is blocked in a write to a full pipe
ChildBlocked(j) ==
    /\ procs[j].state = "running"
    /\ \/ procs[j].next.op = "stderr" /\ Len(procs[j].stderr) >= PipeCap
       \/ procs[j].next.op = "stdout" /\ Len(procs[j].stdout) >= PipeCap

\* the runner is blocked reading an empty pipe, or in process.wait()
RunnerBlocked(j) ==
    \/ threads[j].pc = "stderr" /\ procs[j].stderr = <<>>
    \/ threads[j].pc = "stdout" /\ procs[j].stdout = <<>>
    \/ threads[j].pc = "wait"

\* C7 as claimed: the runner and its child never wait on each other (from
\* such a state neither moves again, so the job never ends).
C7_NoPipeDeadlock ==
    \A j \in Jobs : ~(ChildBlocked(j) /\ RunnerBlocked(j))

\* C8 as claimed: a job whose Popen raised has an "Error" status emitted,
\* and the application goes on.
C8_SpawnFailureIsFailed ==
    \A j \in Jobs :
        threads[j].pc = "raised" =>
            /\ StatusEv(threads[j].input_file, "Error")
                 \in { threads[j].emitted[i] : i \in 1..Len(threads[j].emitted) }
            /\ ~aborted

Min(a, b) == IF a < b THEN a ELSE b

\* the hundredths of a second of matched fields
Centis(f) == (f[1] * 3600 + f[2] * 60) * 100 + f[3]

\* C9 as claimed: the emitted progress is min(99, floor(t / d * 100)).
C9_ProgressIsFloor ==
    calc.progress # -1 =>
        calc.progress = Min(99, (100 * Centis(calc.time)) \div Centis(calc.duration))

NeverKnown(j) == threads[j].duration = DurationNone \/ IsZero(threads[j].duration)

\* C10: a runner that found no duration, or a zero one, emits nothing
\* between "Starting conversion..." and its terminal events.
C10_NoDurationNoProgress ==
    \A j \in Jobs :
        LET t     == threads[j]
            start == << StatusEv(t.input_file, "Starting conversion...") >>
        IN  (NeverKnown(j) /\ t.pc # "run") =>
                \/ ~Finished(j) /\ t.emitted = start
                \/ /\ Finished(j) /\ ExitCode(j) = 0
                   /\ t.emitted = start \o << ProgressEv(t.input_file, 100),
                                              StatusEv(t.input_file, "Completed"),
                                              ConversionFinishedEv(t.input_file, t.output_file) >>
                \/ /\ Finished(j) /\ ExitCode(j) # 0
                   /\ t.emitted = start \o << StatusEv(t.input_file, "Error") >>

\* the child wrote an out_time line that the runner, knowing no duration,
\* never read
C10_Witness ==
    \E j \in Jobs :
        /\ Finished(j)
        /\ IsZero(threads[j].duration)
        /\ procs[j].stdout # <<>>
        /\ Head(procs[j].stdout) # NoMatch

====
